---- MODULE Spec2Model ----
(***************************************************************************)
(* Model of import.py: the Goodreads-export importer.                      *)
(*                                                                         *)
(* The model starts where the batch starts (import.py line 201): the       *)
(* session exists, used_keys has been computed from the listed records     *)
(* and the CSV rows are loaded into data.  It follows the row loop         *)
(* (lines 207-232) request by request and ends with the report writing     *)
(* (lines 234-242).                                                        *)
(*                                                                         *)
(* Python strings are sequences of one-character strings, so that strip,   *)
(* split, replace and int() are computed as the code computes them.  A     *)
(* few fixed literals of the source that no code takes apart ("Success",   *)
(* "T00:00:00.000Z", the timestamp of now) are single symbols.             *)
(* Python values that may be None, a string or something else are tagged   *)
(* records [t |-> "none" | "str" | "other", s |-> characters].             *)
(***************************************************************************)
EXTENDS Integers, Sequences, FiniteSets, TLC

\* ------------------------------------------------------------------ bounds
\* Rows in the input file (0 .. MaxRows).
MaxRows == 2

\* ----------------------------------------------------------- Python values
None == [t |-> "none", s |-> <<>>]
Str(s) == [t |-> "str", s |-> s]
\* A truthy JSON value that is no string (a number, an object).
Other == [t |-> "other", s |-> <<>>]

\* isinstance(v, str)
IsStr(v) == v.t = "str"
\* Python truthiness of a value: None and "" are falsy.
Truthy(v) == v.t = "other" \/ (v.t = "str" /\ v.s # <<>>)

\* ----------------------------------------------------------- string helpers
Digits == {"0", "1", "2", "3", "4", "5", "6", "7", "8", "9"}
DigitVal(c) == CASE c = "0" -> 0 [] c = "1" -> 1 [] c = "2" -> 2 [] c = "3" -> 3
                 [] c = "4" -> 4 [] c = "5" -> 5 [] c = "6" -> 6 [] c = "7" -> 7
                 [] c = "8" -> 8 [] c = "9" -> 9

RECURSIVE lstrip(_, _)
\* str.lstrip(chars): drop leading characters that are in chars.
lstrip(s, chars) ==
    IF s # <<>> /\ Head(s) \in chars THEN lstrip(Tail(s), chars) ELSE s

RECURSIVE rstrip(_, _)
\* str.rstrip(chars): drop trailing characters that are in chars.
rstrip(s, chars) ==
    IF s # <<>> /\ s[Len(s)] \in chars
    THEN rstrip(SubSeq(s, 1, Len(s) - 1), chars) ELSE s

\* str.strip(): whitespace off both ends.
strip(s) == rstrip(lstrip(s, {" "}), {" "})

RECURSIVE split(_, _)
\* str.split(sep) for a one-character sep: the list of segments.
split(s, sep) ==
    IF \A i \in 1..Len(s) : s[i] # sep
    THEN <<s>>
    ELSE LET i == CHOOSE j \in 1..Len(s) :
                      s[j] = sep /\ \A k \in 1..(j - 1) : s[k] # sep
         IN <<SubSeq(s, 1, i - 1)>> \o split(SubSeq(s, i + 1, Len(s)), sep)

\* str.replace(old, new) for one-character old and new.
replace(s, old, new) == [i \in 1..Len(s) |-> IF s[i] = old THEN new ELSE s[i]]

\* key.split("/")[-1]
LastSegment(s) == LET parts == split(s, "/") IN parts[Len(parts)]

RECURSIVE DigitsValue(_)
DigitsValue(s) ==
    IF s = <<>> THEN 0
    ELSE 10 * DigitsValue(SubSeq(s, 1, Len(s) - 1)) + DigitVal(s[Len(s)])

\* int(s) of Python: surrounding whitespace is ignored, one optional sign,
\* then at least one decimal digit.  ok = FALSE stands for ValueError.
ParseInt(s) ==
    LET t    == strip(s)
        neg  == t # <<>> /\ Head(t) = "-"
        body == IF t # <<>> /\ Head(t) \in {"-", "+"} THEN Tail(t) ELSE t
    IN IF body # <<>> /\ \A i \in 1..Len(body) : body[i] \in Digits
       THEN [ok |-> TRUE,
             val |-> IF neg THEN 0 - DigitsValue(body) ELSE DigitsValue(body)]
       ELSE [ok |-> FALSE, val |-> 0]

\* valid_read_count without the test of line 173.
valid_read_count_parse_only(count) == ParseInt(count).ok

\* valid_read_count(count), lines 172-179.
valid_read_count(count) ==
    IF count \in {<<"0">>, <<>>} THEN FALSE ELSE ParseInt(count).ok


\* ------------------------------------------------------------------- rows
\* The columns of the export the code reads.
Columns == {"ISBN13", "ISBN", "Title", "Author", "Book Id", "Publisher",
            "Year Published", "Original Publication Year", "My Rating",
            "My Review", "Date Read", "Date Added", "Read Count"}

Q == "\""

\* One row of csv.DictReader (line 205): every column is a string.
Row(count, isbn13, isbn, title, rating, dateRead, publisher) ==
    [c \in Columns |->
        CASE c = "Read Count" -> count
          [] c = "ISBN13" -> isbn13
          [] c = "ISBN" -> isbn
          [] c = "Title" -> title
          [] c = "My Rating" -> rating
          [] c = "Date Read" -> dateRead
          [] c = "Publisher" -> publisher
          [] c = "Author" -> <<"H">>
          [] c = "Book Id" -> <<"7">>
          [] c = "Year Published" -> <<"9">>
          [] c = "Original Publication Year" -> <<>>
          [] c = "My Review" -> <<>>
          [] c = "Date Added" -> <<"2", "/", "1">>]

\* The export writes ISBNs as ="..." (and ="" when it has none).
NoIsbn == <<"=", Q, Q>>
Isbn13 == <<"=", Q, "9", "7", Q>>
Isbn10 == <<"=", Q, "1", Q>>

\* The rows an input file is made of.  'Read Count' is any string (the
\* code does not trust it, line 208): empty, "0", no number, positive,
\* negative, zero with a leading zero.  'My Rating' is the export's integer
\* 0..5, which create_record reads with int() (line 128).
RowPool ==
    { Row(<<>>, Isbn13, Isbn10, <<"T">>, <<"3">>, <<>>, <<"P">>),
      Row(<<"0">>, Isbn13, NoIsbn, <<"T">>, <<"5">>, <<>>, <<>>),
      Row(<<"x">>, NoIsbn, Isbn10, <<"T">>, <<"0">>, <<>>, <<>>),
      Row(<<"1">>, Isbn13, Isbn10, <<"T">>, <<"4">>, <<"3", "/", "2">>, <<>>),
      Row(<<"2">>, NoIsbn, NoIsbn,
          <<"T", " ", "(", "b", ":", "c", ")", ":", " ", "S">>,
          <<"0">>, <<>>, <<"P">>),
      Row(<<"-", "1">>, NoIsbn, Isbn10, <<"[", "x", "]">>, <<"1">>, <<>>, <<>>),
      Row(<<"0", "0">>, Isbn13, NoIsbn, <<"T", ":", "S">>, <<"2">>, <<>>, <<>>) }

\* ------------------------------------------------------- catalog resolver
RECURSIVE RemoveBrackets(_)
\* re.sub(r'[\[\(].*?[\]\)]', '', s), line 101: leftmost opener up to the
\* nearest closer after it, repeated over the rest.
RemoveBrackets(s) ==
    IF s = <<>> THEN <<>>
    ELSE IF Head(s) \in {"[", "("} /\ \E j \in 2..Len(s) : s[j] \in {"]", ")"}
    THEN LET j == CHOOSE k \in 2..Len(s) :
                      s[k] \in {"]", ")"} /\ \A m \in 2..(k - 1) : s[m] \notin {"]", ")"}
         IN RemoveBrackets(SubSeq(s, j + 1, Len(s)))
    ELSE <<Head(s)>> \o RemoveBrackets(Tail(s))

\* The parameters of the strict search before filtering, lines 101-112.
AllParams(row) ==
    LET title == split(RemoveBrackets(row["Title"]), ":")
    IN [p \in {"title", "subtitle", "author", "id_goodreads", "publisher",
               "publish_year", "first_publish_year", "q", "fields"} |->
           CASE p = "title" -> strip(title[1])
             [] p = "subtitle" -> IF Len(title) > 1 THEN strip(title[2]) ELSE <<>>
             [] p = "author" -> row["Author"]
             [] p = "id_goodreads" -> row["Book Id"]
             [] p = "publisher" -> row["Publisher"]
             [] p = "publish_year" -> row["Year Published"]
             [] p = "first_publish_year" -> row["Original Publication Year"]
             [] p = "q" -> <<"language:eng">>
             [] p = "fields" -> <<"key,editions,editions.key">>]

\* Line 113: parameters with a falsy value are dropped.
StrictParams(row) ==
    LET all == AllParams(row)
    IN [p \in {q \in DOMAIN all : all[q] # <<>>} |-> all[p]]

\* The retry sent with the parameters of the strict search.
LooseNames == {"title", "author", "q", "fields"}

\* The retry sent with the parameters of the strict search.
LooseParams_unchanged(params) == params

\* Line 118: the loose search keeps title, author, q and fields.
LooseParams(params) == [p \in (DOMAIN params) \cap LooseNames |-> params[p]]

NoParams == [p \in {} |-> <<>>]


\* ------------------------------------------------------- HTTP and JSON
\* A parsed JSON body as the code reads it: kind "null" is Python None,
\* "empty" is {} (falsy), "dict" a non-empty object.  Members the code
\* reads: key (ISBN lookup), num_found and docs (search), uri
\* (createRecord).  An absent member is None (dict.get), an absent number
\* the empty sequence.
Body(kind, key, num_found, docs, uri) ==
    [kind |-> kind, key |-> key, num_found |-> num_found, docs |-> docs, uri |-> uri]
NoneBody == Body("null", None, <<>>, <<>>, None)
EmptyBody == Body("empty", None, <<>>, <<>>, None)

\* `not res`
Falsy(res) == res.kind # "dict"

\* What one HTTP exchange can end in: "error" is an exception of
\* requests.get/post or of raise_for_status (lines 20-27), "unparseable" a
\* 2xx answer whose body is no JSON, "ok" a 2xx answer with a JSON body.
Outcome(st, body) == [st |-> st, body |-> body]
Failed == Outcome("error", NoneBody)
Unparseable == Outcome("unparseable", NoneBody)

\* safe_request, lines 18-31: the try block ends before res.json(), so an
\* error inside it returns None and a body that does not parse raises.
safe_request(h) ==
    [raises |-> h.st = "unparseable",
     ret |-> IF h.st = "ok" THEN h.body ELSE NoneBody]

KeyA == <<"/", "b", "/", "A">>
KeyB == <<"/", "b", "/", "B">>

\* Answers of the catalog's ISBN endpoint.
IsbnOutcomes ==
    {Failed, Unparseable}
    \cup {Outcome("ok", Body("dict", k, <<>>, <<>>, None)) :
             k \in {None, Str(KeyA), Str(KeyB), Other}}

Edition(key) == [key |-> key]
Doc(editions) == [editions |-> editions]

\* Answers of the catalog's search endpoint.
SearchOutcomes ==
    {Failed, Unparseable,
     Outcome("ok", Body("dict", None, <<0>>, <<>>, None)),
     Outcome("ok", Body("dict", None, <<1>>, <<Doc(<<>>)>>, None))}
    \cup {Outcome("ok", Body("dict", None, <<1>>, <<Doc(<<Edition(k)>>)>>, None)) :
             k \in {Str(KeyA), Str(KeyB), Other}}

\* Answers of the record store's createRecord.
PostOutcomes ==
    {Failed, Unparseable,
     Outcome("ok", EmptyBody),
     Outcome("ok", Body("dict", None, <<>>, <<>>, None)),
     Outcome("ok", Body("dict", None, <<>>, <<>>, Str(<<"at://", "r">>)))}

\* safe_get(res, 'docs', 0, 'editions', 'docs', 0, 'key'), lines 8-16, 123.
safe_get_edition_key(res) ==
    IF Len(res.docs) = 0 THEN None
    ELSE IF Len(res.docs[1].editions) = 0 THEN None
    ELSE res.docs[1].editions[1].key

\* key.split("/")[-1] if isinstance(key, str) else None, lines 98 and 124.
KeyOf(key) == IF IsStr(key) THEN Str(LastSegment(key.s)) ELSE None

\* row[isbn_key].lstrip('="').rstrip('"'), line 93.
CleanIsbn(field) == rstrip(lstrip(field, {"=", Q}), {Q})

IsbnKeys == <<"ISBN13", "ISBN">>

\* ------------------------------------------------------------ the record
Now == <<"now">>

\* Lines 128-129.
Rating(n) == IF n * 2 < 1 THEN 1 ELSE n * 2

\* Lines 130-131.
FinishDate(row) ==
    LET d == IF row["Date Read"] # <<>> THEN row["Date Read"] ELSE row["Date Added"]
    IN IF d = <<>> THEN Now ELSE replace(d, "/", "-") \o <<"T00:00:00.000Z">>

\* [finish_date for _ in range(n)], line 148.
Repeat(x, n) == [i \in 1..n |-> x]

\* The record of lines 133-149.
Record(row, open_lib_key) ==
    [item |-> open_lib_key,
     note |-> row["My Review"],
     rating |-> Rating(ParseInt(row["My Rating"]).val),
     finishedAt |-> Repeat(FinishDate(row), ParseInt(row["Read Count"]).val)]

\* The records list_records returns before the run (line 197), each by the
\* value it holds at value.item.value (None when the path is absent).
ListedRecords == { <<>>, <<[item |-> Str(<<"A">>)], [item |-> None]>> }

\* Line 198.
UsedKeys(records) == [i \in 1..Len(records) |-> records[i].item]

\* ------------------------------------------------------------------ state
VARIABLES
    data,          \* the rows of the input file (line 205); a row gains
                   \* 'Import Result' when the loop annotates it
    used_keys,     \* line 198
    results,       \* line 201: the rows appended, as indices into data
                   \* (results holds the row objects of data themselves)
    idx,           \* the for loop's position in data (1-based)
    pc,            \* the statement the run is at
    isbn_i,        \* position of retrieve_key's loop in IsbnKeys
    params,        \* retrieve_key's params
    res,           \* the value the last safe_request returned in the call
    open_lib_key,  \* line 214
    queries,       \* the catalog queries sent for the row being processed
    posts,         \* the createRecord requests sent, oldest first
    writes,        \* per row, how often 'Import Result' was assigned
    fault,         \* the exception that ended the run, or "none"
    report         \* the rows written to the report file

vars == <<data, used_keys, results, idx, pc, isbn_i, params, res,
          open_lib_key, queries, posts, writes, fault, report>>

Inputs == UNION {[1..n -> RowPool] : n \in 0..MaxRows}

Init ==
    /\ data \in Inputs
    /\ used_keys \in {UsedKeys(r) : r \in ListedRecords}
    /\ results = <<>>
    /\ idx = 1
    /\ pc = "validate"
    /\ isbn_i = 0
    /\ params = NoParams
    /\ res = NoneBody
    /\ open_lib_key = None
    /\ queries = <<>>
    /\ posts = <<>>
    /\ writes = [i \in 1..Len(data) |-> 0]
    /\ fault = "none"
    /\ report = <<>>

row == data[idx]

\* An exception nobody catches ends the run.
Raise(name) ==
    /\ pc' = "crashed"
    /\ fault' = name

\* The annotation without results.append(row) on the excluded branch.
Annotate_no_append(text) ==
    /\ data' = [data EXCEPT ![idx] = ("Import Result" :> <<text>>) @@ data[idx]]
    /\ writes' = [writes EXCEPT ![idx] = @ + 1]
    /\ results' = IF text = "Excluded: Read count invalid"
                  THEN results ELSE Append(results, idx)

\* row['Import Result'] = text; results.append(row)
Annotate(text) ==
    /\ data' = [data EXCEPT ![idx] = ("Import Result" :> <<text>>) @@ data[idx]]
    /\ writes' = [writes EXCEPT ![idx] = @ + 1]
    /\ results' = Append(results, idx)

\* `continue` of the row loop, or the end of its body.
NextRow ==
    /\ idx' = idx + 1
    /\ pc' = "validate"

\* One catalog query of query_open_lib (lines 85-89) and its answer;
\* strategy names the place in retrieve_key that sent it.
Query(strategy, cat, val, ps, h) ==
    [row |-> idx, strategy |-> strategy, cat |-> cat, val |-> val,
     params |-> ps, answer |-> h]

\* Lines 207-214: the loop takes the next row and checks its read count.
Validate ==
    /\ pc = "validate"
    /\ idx <= Len(data)
    /\ queries' = <<>>
    /\ res' = NoneBody
    /\ open_lib_key' = None
    /\ params' = NoParams
    /\ IF ~valid_read_count(row["Read Count"])
       THEN /\ Annotate("Excluded: Read count invalid")
            /\ NextRow
            /\ isbn_i' = 0
       ELSE /\ pc' = "isbn"
            /\ isbn_i' = 1
            /\ UNCHANGED <<data, writes, results, idx>>
    /\ UNCHANGED <<used_keys, posts, fault, report>>

\* `continue` of the loop over IsbnKeys, lines 92-97.
NextIsbn ==
    IF isbn_i < Len(IsbnKeys)
    THEN isbn_i' = isbn_i + 1 /\ pc' = "isbn"
    ELSE isbn_i' = 0 /\ pc' = "search"

\* The ISBN loop going on whatever the lookup answered.
IsbnMiss_always(r) == TRUE

\* `not res or not (key := res.get('key'))`, line 96.
IsbnMiss(r) == Falsy(r) \/ ~Truthy(r.key)

\* Lines 92-98: one pass of the loop over ISBN13 and ISBN.
IsbnLookup ==
    /\ pc = "isbn"
    /\ LET isbn == CleanIsbn(row[IsbnKeys[isbn_i]])
       IN IF isbn = <<>>
          THEN /\ NextIsbn
               /\ UNCHANGED <<queries, res, open_lib_key, fault>>
          ELSE \E h \in IsbnOutcomes :
                 LET r == safe_request(h)
                 IN /\ queries' = Append(queries, Query(IsbnKeys[isbn_i], "isbn", isbn,
                                                          NoParams, h))
                    /\ IF r.raises
                       THEN /\ Raise("JSONDecodeError")
                            /\ UNCHANGED <<res, open_lib_key, isbn_i>>
                       ELSE /\ res' = r.ret
                            /\ fault' = fault
                            /\ IF IsbnMiss(r.ret)
                               THEN /\ NextIsbn
                                    /\ open_lib_key' = open_lib_key
                               ELSE /\ open_lib_key' = KeyOf(r.ret.key)
                                    /\ isbn_i' = 0
                                    /\ pc' = "decide"
    /\ UNCHANGED <<data, used_keys, results, idx, params, posts, writes, report>>

\* `not res or (res.get('num_found') == 0)`, lines 116 and 121.
NoMatch(r) == Falsy(r) \/ r.num_found = <<0>>

\* Lines 100-116 and 123-124: the strict search.
StrictSearch ==
    /\ pc = "search"
    /\ params' = StrictParams(row)
    /\ \E h \in SearchOutcomes :
         LET r == safe_request(h)
         IN /\ queries' = Append(queries, Query("strict", "search", <<>>, params', h))
            /\ IF r.raises
               THEN /\ Raise("JSONDecodeError")
                    /\ UNCHANGED <<res, open_lib_key>>
               ELSE /\ res' = r.ret
                    /\ fault' = fault
                    /\ IF NoMatch(r.ret)
                       THEN pc' = "loose" /\ open_lib_key' = open_lib_key
                       ELSE /\ pc' = "decide"
                            /\ open_lib_key' = KeyOf(safe_get_edition_key(r.ret))
    /\ UNCHANGED <<data, used_keys, results, idx, isbn_i, posts, writes, report>>

\* Lines 117-124: the search again with the loose parameters.
LooseSearch ==
    /\ pc = "loose"
    /\ params' = LooseParams(params)
    /\ \E h \in SearchOutcomes :
         LET r == safe_request(h)
         IN /\ queries' = Append(queries, Query("loose", "search", <<>>, params', h))
            /\ IF r.raises
               THEN /\ Raise("JSONDecodeError")
                    /\ UNCHANGED <<res, open_lib_key>>
               ELSE /\ res' = r.ret
                    /\ fault' = fault
                    /\ pc' = "decide"
                    /\ open_lib_key' = IF NoMatch(r.ret) THEN None
                                       ELSE KeyOf(safe_get_edition_key(r.ret))
    /\ UNCHANGED <<data, used_keys, results, idx, isbn_i, posts, writes, report>>

\* The duplicate test never finding the key.
InUsedKeys_never(key) == FALSE

\* The duplicate test also counting the keys posted earlier in the run.
InUsedKeys_in_run(key) ==
    \/ \E i \in 1..Len(used_keys) : used_keys[i] = key
    \/ \E j \in 1..Len(posts) : Str(posts[j].record.item) = key

\* `open_lib_key in used_keys`, line 222.
InUsedKeys(key) == \E i \in 1..Len(used_keys) : used_keys[i] = key

\* Lines 215-230: the outcome of the row.
Decide ==
    /\ pc = "decide"
    /\ IF ~Truthy(open_lib_key)
       THEN Annotate("Failure: No open library key found") /\ NextRow
       ELSE IF InUsedKeys(open_lib_key)
       THEN Annotate("Skipped: Already had a record") /\ NextRow
       ELSE Annotate("Success") /\ pc' = "create" /\ idx' = idx
    /\ UNCHANGED <<used_keys, isbn_i, params, res, open_lib_key, queries,
                   posts, fault, report>>

\* Lines 126-165: create_record builds the record and posts it.
CreateRecord ==
    /\ pc = "create"
    /\ IF ~ParseInt(row["My Rating"]).ok
       THEN /\ Raise("ValueError")
            /\ UNCHANGED <<posts, res>>
       ELSE \E h \in PostOutcomes :
              LET r == safe_request(h)
              IN /\ posts' = Append(posts, [row |-> idx,
                                            record |-> Record(row, open_lib_key.s)])
                 /\ IF r.raises
                    THEN Raise("JSONDecodeError") /\ res' = res
                    ELSE res' = r.ret /\ pc' = "created" /\ fault' = fault
    /\ UNCHANGED <<data, used_keys, results, idx, isbn_i, params, open_lib_key,
                   queries, writes, report>>

\* create_record marking the row failed when the store gave no answer.
CreateReturn_relabel ==
    /\ pc = "created"
    /\ IF Falsy(res)
       THEN /\ data' = [data EXCEPT ![idx] =
                           ("Import Result" :> <<"Failure: No open library key found">>)
                           @@ [c \in Columns |-> data[idx][c]]]
            /\ NextRow /\ fault' = fault
       ELSE /\ data' = data
            /\ IF IsStr(res.uri)
               THEN NextRow /\ fault' = fault
               ELSE Raise("AttributeError") /\ idx' = idx
    /\ UNCHANGED <<used_keys, results, isbn_i, params, res, open_lib_key,
                   queries, posts, writes, report>>

\* Lines 166-170: create_record reads the answer and returns.
CreateReturn ==
    /\ pc = "created"
    /\ IF Falsy(res) \/ IsStr(res.uri)
       THEN NextRow /\ fault' = fault
       ELSE Raise("AttributeError") /\ idx' = idx
    /\ UNCHANGED <<data, used_keys, results, isbn_i, params, res, open_lib_key,
                   queries, posts, writes, report>>

\* The for loop of line 207 runs out of rows.
LoopExit ==
    /\ pc = "validate"
    /\ idx > Len(data)
    /\ pc' = "report"
    /\ UNCHANGED <<data, used_keys, results, idx, isbn_i, params, res,
                   open_lib_key, queries, posts, writes, fault, report>>

\* Lines 234-242: results[0].keys() names the columns, then every row is
\* written.
WriteReport ==
    /\ pc = "report"
    /\ IF results = <<>>
       THEN Raise("IndexError") /\ report' = report
       ELSE /\ report' = [i \in 1..Len(results) |-> data[results[i]]]
            /\ pc' = "done"
            /\ fault' = fault
    /\ UNCHANGED <<data, used_keys, results, idx, isbn_i, params, res,
                   open_lib_key, queries, posts, writes>>

Next ==
    \/ Validate
    \/ IsbnLookup
    \/ StrictSearch
    \/ LooseSearch
    \/ Decide
    \/ CreateRecord
    \/ CreateReturn
    \/ LoopExit
    \/ WriteReport

Spec == Init /\ [][Next]_vars

\* ------------------------------------------------- vocabulary of the claims
Annotated(i) == "Import Result" \in DOMAIN data[i]
ImportResult(i) == IF Annotated(i) THEN data[i]["Import Result"] ELSE <<>>

Excluded == <<"Excluded: Read count invalid">>
Failure == <<"Failure: No open library key found">>
Skipped == <<"Skipped: Already had a record">>
Success == <<"Success">>

\* The createRecord requests sent for row i.
PostsFor(i) == {j \in 1..Len(posts) : posts[j].row = i}

\* The row the logged catalog queries belong to.
LastRow == queries[1].row
\* retrieve_key has returned for that row and the loop has annotated it.
Decided == queries # <<>> /\ Annotated(LastRow)
\* retrieve_key has returned for that row.
Returned == queries # <<>> /\ (pc = "decide" \/ Annotated(LastRow))

\* A read count that is "", "0" or no integer.
BadCount(c) == c = <<>> \/ c = <<"0">> \/ ~ParseInt(c).ok

\* The key is among the keys listed before the run.
Listed(k) == \E u \in 1..Len(used_keys) : used_keys[u] = k

\* The answer carried no response, or a response reporting zero matches.
NoResponse(a) == a.st = "error"
ZeroMatches(a) == a.st = "ok" /\ a.body.num_found = <<0>>
\* The answer holds a document whose first edition entry has a string key.
HasStringKey(a) ==
    /\ a.st = "ok"
    /\ Len(a.body.docs) > 0
    /\ Len(a.body.docs[1].editions) > 0
    /\ a.body.docs[1].editions[1].key.t = "str"
StringKey(a) == a.body.docs[1].editions[1].key.s

\* The query's answer yielded a key to retrieve_key.
Yielded(q) ==
    /\ q.answer.st = "ok"
    /\ q.answer.body.kind = "dict"
    /\ IF q.cat = "isbn"
       THEN q.answer.body.key.t = "other"
            \/ (q.answer.body.key.t = "str" /\ q.answer.body.key.s # <<>>)
       ELSE q.answer.body.num_found # <<0>>

Strategies == {"ISBN13", "ISBN", "strict", "loose"}
Rank(st) == CASE st = "ISBN13" -> 1 [] st = "ISBN" -> 2
              [] st = "strict" -> 3 [] st = "loose" -> 4

\* ----------------------------------------------------------------- claims

\* C1: a row whose 'Read Count' is "", "0" or no integer is annotated
\* 'Excluded: Read count invalid' as soon as the loop has passed it, and no
\* catalog query and no createRecord request is ever sent for it.
C1_ExcludedNoNetwork ==
    \A i \in 1..Len(data) :
        BadCount(data[i]["Read Count"]) =>
            /\ (i < idx => ImportResult(i) = Excluded /\ writes[i] = 1)
            /\ \A j \in 1..Len(queries) : queries[j].row # i
            /\ PostsFor(i) = {}

C1_Witness ==
    \E i \in 1..Len(data) :
        /\ i < idx
        /\ data[i]["Read Count"] = <<"x">>
        /\ ImportResult(i) = Excluded
        /\ \E k \in 1..Len(data) : k < idx /\ PostsFor(k) # {}

\* C2: the queries of one row are sent in the order ISBN-13 lookup, ISBN-10
\* lookup, strict search, loose search; a strategy is passed over only when
\* it is an ISBN lookup whose field is empty; and no query follows one whose
\* answer yielded a key, so after a successful ISBN-13 lookup no ISBN-10
\* lookup and no search is sent.
C2_StrategyOrder ==
    \A j \in 1..Len(queries) :
        LET q == queries[j]
        IN /\ q.row = LastRow
           /\ q.strategy \in Strategies
           /\ IF q.strategy \in {"ISBN13", "ISBN"}
              THEN /\ q.cat = "isbn"
                   /\ q.val = CleanIsbn(data[q.row][q.strategy])
                   /\ q.val # <<>>
              ELSE q.cat = "search"
           /\ j > 1 => /\ Rank(queries[j - 1].strategy) < Rank(q.strategy)
                       /\ ~Yielded(queries[j - 1])
           /\ \A st \in Strategies :
                 Rank(st) < Rank(q.strategy) =>
                    \/ \E k \in 1..(j - 1) : queries[k].strategy = st
                    \/ /\ st \in {"ISBN13", "ISBN"}
                       /\ CleanIsbn(data[q.row][st]) = <<>>

C2_Witness ==
    /\ pc = "decide"
    /\ Len(queries) = 1
    /\ queries[1].strategy = "ISBN13"
    /\ Yielded(queries[1])
    /\ CleanIsbn(data[idx]["ISBN"]) # <<>>
    /\ open_lib_key = Str(<<"B">>)

\* C3 (as claimed): no failure of a catalog lookup, a catalog search or a
\* createRecord request ends the run: the run never dies while rows are
\* being processed.
C3_NoFatalRequestFailure ==
    ~(pc = "crashed" /\ fault \in {"JSONDecodeError", "AttributeError"})

\* C4: once the row loop has finished, results holds every input row once,
\* in input order, and each row's 'Import Result' was assigned exactly once,
\* to one of the four outcome strings.
C4_OneResultPerRow ==
    (pc \in {"report", "done"} \/ fault = "IndexError") =>
        /\ results = [i \in 1..Len(data) |-> i]
        /\ \A i \in 1..Len(data) :
              /\ writes[i] = 1
              /\ ImportResult(i) \in {Excluded, Failure, Skipped, Success}

C4_Witness ==
    /\ pc = "report"
    /\ Len(data) = 2
    /\ ImportResult(1) = Success
    /\ ImportResult(2) = Failure

C6_LooseFallback ==
    Returned =>
        LET last == queries[Len(queries)]
        IN /\ last.strategy = "strict" =>
                 ~(NoResponse(last.answer) \/ ZeroMatches(last.answer))
           /\ last.strategy = "loose" =>
                 LET strict == queries[Len(queries) - 1]
                 IN /\ strict.strategy = "strict"
                    /\ NoResponse(strict.answer) \/ ZeroMatches(strict.answer)
                    /\ DOMAIN last.params =
                          DOMAIN strict.params \cap {"title", "author", "q", "fields"}
                    /\ \A n \in DOMAIN last.params : last.params[n] = strict.params[n]
                    /\ HasStringKey(last.answer) =>
                          open_lib_key = Str(LastSegment(StringKey(last.answer)))
                    /\ open_lib_key = None =>
                          NoResponse(last.answer) \/ ZeroMatches(last.answer)

\* C6 (amended): as C6, but the result after the loose search is unresolved
\* exactly when the loose search gave no response, zero matches, or matches
\* whose first document's first edition entry has no string key.
C6_LooseFallbackAmended ==
    Returned =>
        LET last == queries[Len(queries)]
        IN /\ last.strategy = "strict" =>
                 ~(NoResponse(last.answer) \/ ZeroMatches(last.answer))
           /\ last.strategy = "loose" =>
                 LET strict == queries[Len(queries) - 1]
                 IN /\ strict.strategy = "strict"
                    /\ NoResponse(strict.answer) \/ ZeroMatches(strict.answer)
                    /\ DOMAIN last.params =
                          DOMAIN strict.params \cap {"title", "author", "q", "fields"}
                    /\ \A n \in DOMAIN last.params : last.params[n] = strict.params[n]
                    /\ HasStringKey(last.answer) =>
                          open_lib_key = Str(LastSegment(StringKey(last.answer)))
                    /\ open_lib_key = None <=>
                          \/ NoResponse(last.answer)
                          \/ ZeroMatches(last.answer)
                          \/ ~HasStringKey(last.answer)

C6_Witness ==
    /\ pc = "decide"
    /\ Len(queries) = 2
    /\ queries[1].strategy = "strict" /\ ZeroMatches(queries[1].answer)
    /\ "subtitle" \in DOMAIN queries[1].params
    /\ queries[2].strategy = "loose" /\ HasStringKey(queries[2].answer)
    /\ open_lib_key = Str(<<"A">>)

\* C7 (as claimed): every record posted has a finishedAt list of as many
\* entries as the row's read count, all the same, and at least one.
C7_FinishedAtLength ==
    \A j \in 1..Len(posts) :
        LET f == posts[j].record.finishedAt
            n == ParseInt(data[posts[j].row]["Read Count"]).val
        IN /\ Len(f) = n
           /\ Len(f) >= 1
           /\ \A a, b \in 1..Len(f) : f[a] = f[b]

\* C8: no step changes used_keys; so when a row resolves to a key for which
\* an earlier row of the same input already got a createRecord request, the
\* row is 'Success' all the same and gets a request of its own.
C8_StateDuplicatesBothPosted ==
    \A j \in 1..Len(posts) :
        (Decided /\ LastRow # posts[j].row
                 /\ open_lib_key = Str(posts[j].record.item)) =>
            /\ ImportResult(LastRow) = Success
            /\ ImportResult(posts[j].row) = Success
            /\ pc # "create" =>
                  \E k \in PostsFor(LastRow) : posts[k].record.item = open_lib_key.s

C9_EmptyInputCompletes ==
    Len(data) = 0 => fault = "none"

====
